---- MODULE Spec2Model ----
(***************************************************************************)
(* Wake-word training data service (src/src/services/assist.ts).           *)
(*                                                                         *)
(* assistHandler dispatches a request to one of three handlers, each a     *)
(* thin wrapper around one call on the WAKEWORD_TRAINING_BUCKET binding    *)
(* (put / list / get).  An invocation runs synchronously up to its single  *)
(* await on the bucket; the bucket call then resolves or rejects.          *)
(*                                                                         *)
(* Strings are TLC strings (Len, SubSeq and \o work on them).  A value     *)
(* that may be null/undefined (a header, a query parameter) is a tuple:    *)
(* <<>> when absent, <<s>> when present with the string s.                 *)
(***************************************************************************)
EXTENDS Integers, Sequences, FiniteSets, TLC

VARIABLES pc, request, response, pending, settled, putCalls, bucket, putLog

vars == <<pc, request, response, pending, settled, putCalls, bucket, putLog>>

(***************************************************************************)
(* Bounds of the model.                                                    *)
(***************************************************************************)
NumInvocations == 2
MaxClock == 2

(***************************************************************************)
(* JavaScript string helpers.                                              *)
(***************************************************************************)
Absent == <<>>

Present(s) == <<s>>

\* JS truthiness of a string-or-null value: null, undefined and "" are falsy.
Truthy(v) == v # Absent /\ v[1] # ""

\* `${v}` for a string-or-null value produced by URLSearchParams.get / Headers.get
TemplateNull(v) == IF v = Absent THEN "null" ELSE v[1]

\* `${v}` for a value that is undefined when missing (optional chaining)
TemplateUndefined(v) == IF v = Absent THEN "undefined" ELSE v[1]

Min(a, b) == IF a < b THEN a ELSE b

Max(a, b) == IF a > b THEN a ELSE b

CharAt(s, i) == SubSeq(s, i, i)

\* String.prototype.substring(start, end): 0-based, arguments clamped to
\* [0, length] and swapped when start > end.
Substring(s, start, end) ==
  LET a == Min(Max(start, 0), Len(s))
      b == Min(Max(end, 0), Len(s))
      lo == Min(a, b)
      hi == Max(a, b)
  IN  IF lo = hi THEN "" ELSE SubSeq(s, lo + 1, hi)

StartsWith(s, p) == Len(s) >= Len(p) /\ SubSeq(s, 1, Len(p)) = p

\* 1-based position of the first occurrence of p in s, 0 if there is none
IndexOf(s, p) ==
  LET at == {k \in 1..(Len(s) - Len(p) + 1) : SubSeq(s, k, k + Len(p) - 1) = p}
  IN  IF at = {} THEN 0 ELSE CHOOSE k \in at : \A j \in at : k <= j

\* s.split(sep)[0]
SplitFirst(s, sep) ==
  LET k == IndexOf(s, sep)
  IN  IF k = 0 THEN s ELSE Substring(s, 0, k - 1)

\* s.replace(pattern, replacement) with a string pattern: first occurrence only
Replace(s, p, r) ==
  LET k == IndexOf(s, p)
  IN  IF k = 0 THEN s
      ELSE Substring(s, 0, k - 1) \o r \o Substring(s, k - 1 + Len(p), Len(s))

RECURSIVE Join(_, _)
\* Array.prototype.join
Join(parts, sep) ==
  IF Len(parts) = 0 THEN ""
  ELSE IF Len(parts) = 1 THEN parts[1]
  ELSE parts[1] \o sep \o Join(Tail(parts), sep)

\* Array.prototype.includes
Includes(arr, x) == \E k \in 1..Len(arr) : arr[k] = x

RECURSIVE Filter(_, _)
\* Array.prototype.filter with a predicate that rejects the members of `drop`
Filter(arr, drop) ==
  IF Len(arr) = 0 THEN <<>>
  ELSE IF arr[1] \in drop THEN Filter(Tail(arr), drop)
  ELSE <<arr[1]>> \o Filter(Tail(arr), drop)

(***************************************************************************)
(* Numbers.  A JS number is [nan |-> TRUE] or [nan |-> FALSE, n |-> int].  *)
(***************************************************************************)
NaN == [nan |-> TRUE]

Num(n) == [nan |-> FALSE, n |-> n]

IsWhitespace(c) == c \in {" ", "\t", "\n", "\r"}

IsDigit(c) == c \in {"0", "1", "2", "3", "4", "5", "6", "7", "8", "9"}

DigitValue(c) ==
  CASE c = "0" -> 0 [] c = "1" -> 1 [] c = "2" -> 2 [] c = "3" -> 3
    [] c = "4" -> 4 [] c = "5" -> 5 [] c = "6" -> 6 [] c = "7" -> 7
    [] c = "8" -> 8 [] c = "9" -> 9

RECURSIVE SkipWhitespace(_, _)
SkipWhitespace(s, i) ==
  IF i <= Len(s) /\ IsWhitespace(CharAt(s, i)) THEN SkipWhitespace(s, i + 1) ELSE i

RECURSIVE ParseDigits(_, _, _)
\* the value of the longest run of decimal digits of s starting at i
ParseDigits(s, i, acc) ==
  IF i <= Len(s) /\ IsDigit(CharAt(s, i))
  THEN ParseDigits(s, i + 1, acc * 10 + DigitValue(CharAt(s, i)))
  ELSE acc

\* parseInt(s, 10): leading whitespace skipped, an optional sign, then the
\* longest prefix of digits; NaN when there is no digit.
ParseInt(s) ==
  LET i == SkipWhitespace(s, 1)
      signed == i <= Len(s) /\ CharAt(s, i) \in {"-", "+"}
      negative == signed /\ CharAt(s, i) = "-"
      j == IF signed THEN i + 1 ELSE i
  IN  IF j <= Len(s) /\ IsDigit(CharAt(s, j))
      THEN Num(IF negative THEN 0 - ParseDigits(s, j, 0) ELSE ParseDigits(s, j, 0))
      ELSE NaN

\* Math.min(a, b): NaN when either argument is NaN
MathMin(a, b) == IF a.nan \/ b.nan THEN NaN ELSE Num(Min(a.n, b.n))

\* `${x}` of a number
NumberToString(x) == IF x.nan THEN "NaN" ELSE ToString(x.n)

(***************************************************************************)
(* Program constants.                                                      *)
(***************************************************************************)
WAKE_WORD_TRAINING_UPLOAD == "/assist/wake_word/training_data/upload"

WAKE_WORD_TRAINING_LIST == "/assist/wake_word/training_data/list"

WAKE_WORD_TRAINING_DOWNLOAD == "/assist/wake_word/training_data/download"

WAKE_WORD_ALLOWED_CONTENT_TYPES == <<"audio/webm", "audio/ogg", "audio/mp4", "audio/wav">>

WAKE_WORD_ALLOWED_NAMES == <<"hey_nexus">>

NEGATIVE_WAKE_WORD_ALLOWED_NAMES == <<"hey_lexus", "hey_texas", "texas">>

WAKE_WORD_MAX_CONTENT_LENGTH == 250 * 1024

(***************************************************************************)
(* Reference tables of ../data/demographics, each given by its own keys in *)
(* Object.keys order.  The data module lies outside src/services: the keys *)
(* are those the specification names, and a few more of their kind.        *)
(***************************************************************************)
AGES == <<"", "child", "adult">>

GENDERS == <<"male", "female", "do_not_wish_to_say">>

LEGACY_ACCENTS ==
  << [language |-> "en", accents |-> <<"us", "gb">>],
     [language |-> "de", accents |-> <<"de">>] >>

LegacyAccentLanguages == [k \in 1..Len(LEGACY_ACCENTS) |-> LEGACY_ACCENTS[k].language]

(***************************************************************************)
(* The `in` operator.  `key in table` is true of the table's own keys and  *)
(* of the property names a plain object inherits from Object.prototype.    *)
(***************************************************************************)
ObjectPrototypeKeys ==
  { "constructor", "hasOwnProperty", "isPrototypeOf", "propertyIsEnumerable",
    "toLocaleString", "toString", "valueOf", "__proto__",
    "__defineGetter__", "__defineSetter__", "__lookupGetter__", "__lookupSetter__" }

\* what a function object answers to `in`, beyond Object.prototype's names
FunctionKeys == {"length", "name", "apply", "bind", "call", "arguments", "caller"}

In(key, ownKeys) == Includes(ownKeys, key) \/ key \in ObjectPrototypeKeys

\* Object.keys(LEGACY_ACCENTS[language]): the accents of a language of the
\* table; nothing enumerable for an inherited member.
AccentKeys(language) ==
  IF Includes(LegacyAccentLanguages, language)
  THEN LEGACY_ACCENTS[CHOOSE k \in 1..Len(LEGACY_ACCENTS) :
                        LEGACY_ACCENTS[k].language = language].accents
  ELSE <<>>

\* accent in LEGACY_ACCENTS[language], for a language that is `in` the table
AccentIn(accent, language) ==
  IF Includes(LegacyAccentLanguages, language)
  THEN In(accent, AccentKeys(language))
  ELSE IF language = "__proto__"
  THEN accent \in ObjectPrototypeKeys
  ELSE accent \in FunctionKeys \cup ObjectPrototypeKeys

(***************************************************************************)
(* JSON.stringify(content, null, 2) for the contents the handlers build:   *)
(* a bare string, or an object of string-valued members in order.          *)
(***************************************************************************)
\* one character as JSON.stringify writes it inside a string
EscapeChar(c) ==
  IF c = "\"" THEN "\\\""
  ELSE IF c = "\\" THEN "\\\\"
  ELSE IF c = "\n" THEN "\\n"
  ELSE c

RECURSIVE EscapeRange(_, _, _)
\* the characters lo..hi of s, escaped (the range is halved at each level)
EscapeRange(s, lo, hi) ==
  IF lo > hi THEN ""
  ELSE IF lo = hi THEN EscapeChar(CharAt(s, lo))
  ELSE LET mid == (lo + hi) \div 2
       IN  EscapeRange(s, lo, mid) \o EscapeRange(s, mid + 1, hi)

\* the characters JSON.stringify does not copy as they are
NeedsEscape(s) == \E k \in 1..Len(s) : CharAt(s, k) \in {"\"", "\\", "\n"}

\* JSON.stringify of a string
Quote(s) ==
  "\"" \o (IF NeedsEscape(s) THEN EscapeRange(s, 1, Len(s)) ELSE s) \o "\""

RECURSIVE Members(_)
Members(pairs) ==
  IF Len(pairs) = 0 THEN ""
  ELSE "  " \o Quote(pairs[1][1]) \o ": " \o Quote(pairs[1][2])
       \o (IF Len(pairs) = 1 THEN "\n" ELSE ",\n" \o Members(Tail(pairs)))

StringContent(s) == [string |-> s]

ObjectContent(pairs) == [object |-> pairs]

JSONStringify(content) ==
  IF "string" \in DOMAIN content THEN Quote(content.string)
  ELSE IF Len(content.object) = 0 THEN "{}"
  ELSE "{\n" \o Members(content.object) \o "}"

\* a response builder that names its own origin
createResponse_origin(content, status) ==
  [ status |-> status,
    headers |-> [ AccessControlAllowOrigin |-> "null",
                  AccessControlAllowMethods |-> "PUT",
                  AccessControlAllowHeaders |-> "Content-Type",
                  ContentType |-> "application/json;charset=UTF-8" ],
    body |-> JSONStringify(content) ]

createResponse(content, status) ==
  [ status |-> status,
    headers |-> [ AccessControlAllowOrigin |-> "*",
                  AccessControlAllowMethods |-> "PUT",
                  AccessControlAllowHeaders |-> "Content-Type",
                  ContentType |-> "application/json;charset=UTF-8" ],
    body |-> JSONStringify(content) ]

Message(m) == ObjectContent(<< <<"message", m>> >>)

(***************************************************************************)
(* handleUploadAudioFile: what it reads from the request.                  *)
(***************************************************************************)
\* request.headers.get("content-type")?.split(";")[0]
contentTypeOf(req) ==
  IF req.contentType = Absent THEN Absent
  ELSE Present(SplitFirst(req.contentType[1], ";"))

\* contentLengthHeaderValue && parseInt(contentLengthHeaderValue, 10): the
\* header itself when it is null or "", the parsed number otherwise
contentLengthOf(req) ==
  IF Truthy(req.contentLength)
  THEN [parsed |-> TRUE, number |-> ParseInt(req.contentLength[1])]
  ELSE [parsed |-> FALSE, header |-> req.contentLength]

\* !contentLength
ContentLengthFalsy(cl) ==
  IF cl.parsed THEN cl.number.nan \/ cl.number.n = 0 ELSE TRUE

\* `${contentLength}`
ContentLengthText(cl) ==
  IF cl.parsed THEN NumberToString(cl.number) ELSE TemplateNull(cl.header)

\* searchParams.get("age") || ""
ageOf(req) == IF Truthy(req.age) THEN req.age[1] ELSE ""

\* searchParams.get("gender") || "do_not_wish_to_say"
genderOf(req) == IF Truthy(req.gender) THEN req.gender[1] ELSE "do_not_wish_to_say"

(***************************************************************************)
(* The checks of handleUploadAudioFile, each the condition of its `if`.    *)
(***************************************************************************)
\* a method check that lets POST through as well
MethodCheckFails_post(req) == req.method \notin {"PUT", "POST"}

MethodCheckFails(req) == req.method # "PUT"

ContentTypeCheckFails(req) ==
  \/ ~Truthy(contentTypeOf(req))
  \/ ~Includes(WAKE_WORD_ALLOWED_CONTENT_TYPES, contentTypeOf(req)[1])

ContentLengthCheckFails(req) ==
  LET cl == contentLengthOf(req)
  IN  \/ ContentLengthFalsy(cl)
      \/ cl.number.n > WAKE_WORD_MAX_CONTENT_LENGTH

WakeWordMissing(req) == ~Truthy(req.wake_word)

WakeWordCheckFails(req) ==
  ~Includes(WAKE_WORD_ALLOWED_NAMES \o NEGATIVE_WAKE_WORD_ALLOWED_NAMES, req.wake_word[1])

AgeCheckFails(req) == ~In(ageOf(req), AGES)

GenderCheckFails(req) == ~In(genderOf(req), GENDERS)

\* a validation block entered on the language alone
LanguageOrAccentGiven_languageOnly(req) == Truthy(req.language)

\* if (language || accent)
LanguageOrAccentGiven(req) == Truthy(req.language) \/ Truthy(req.accent)

\* if (!language || !accent)
TogetherCheckFails(req) == ~Truthy(req.language) \/ ~Truthy(req.accent)

LanguageCheckFails(req) == ~In(req.language[1], LegacyAccentLanguages)

AccentCheckFails(req) == ~AccentIn(req.accent[1], req.language[1])

(***************************************************************************)
(* The error responses of handleUploadAudioFile.                           *)
(***************************************************************************)
InvalidMethod(req) == createResponse(Message("Invalid method"), 405)

InvalidContentType(req) ==
  createResponse(
    Message("Invalid content-type, received: " \o TemplateUndefined(contentTypeOf(req))
            \o ", allowed: " \o Join(WAKE_WORD_ALLOWED_CONTENT_TYPES, ",")),
    415)

InvalidContentLength(req) ==
  createResponse(
    Message("Invalid content-length, received: " \o ContentLengthText(contentLengthOf(req))
            \o ", allowed [<" \o ToString(WAKE_WORD_MAX_CONTENT_LENGTH) \o "]"),
    413)

MissingWakeWord(req) ==
  createResponse(Message("Invalid parameters: missing wake_word"), 400)

InvalidWakeWord(req) ==
  createResponse(Message("Invalid wake word, received: " \o req.wake_word[1]), 400)

InvalidAge(req) ==
  createResponse(
    Message("Invalid age, received: " \o ageOf(req)
            \o ", allowed: " \o Join(Filter(AGES, {""}), ", ")),
    400)

InvalidGender(req) ==
  createResponse(
    Message("Invalid gender, received: " \o genderOf(req)
            \o ", allowed: " \o Join(GENDERS, ", ")),
    400)

NotTogether(req) ==
  createResponse(Message("Both language and accent must be provided together"), 400)

InvalidLanguage(req) ==
  createResponse(
    Message("Invalid language, received: " \o req.language[1]
            \o ", allowed: " \o Join(LegacyAccentLanguages, ", ")),
    400)

InvalidAccent(req) ==
  createResponse(
    Message("Invalid accent for language " \o req.language[1]
            \o ", received: " \o req.accent[1]
            \o ", allowed: " \o Join(AccentKeys(req.language[1]), ", ")),
    400)

(***************************************************************************)
(* The storage key.                                                        *)
(***************************************************************************)
\* languageAccent after the validation block: `${language}_${accent}` or null
languageAccentOf(req) ==
  IF LanguageOrAccentGiven(req)
  THEN Present(req.language[1] \o "_" \o req.accent[1])
  ELSE Absent

\* the marker decided on the wrong list
isNegative_positive(req) == Includes(WAKE_WORD_ALLOWED_NAMES, req.wake_word[1])

isNegative(req) == Includes(NEGATIVE_WAKE_WORD_ALLOWED_NAMES, req.wake_word[1])

keyExtension(req) == Replace(contentTypeOf(req)[1], "audio/", "")

\* Date.now() is a clock reading; Math.random().toString(36) is a text such
\* as "0.k3j2h1" of which substring(2, 15) keeps the fraction
uniqueIdOf(timestamp, randomText) ==
  ToString(timestamp) \o "-" \o Substring(randomText, 2, 15)

\* an identifier that ignores the cf-ray header
identifierOf_generated(req, uniqueId) == uniqueId

\* cfRay || uniqueId
identifierOf(req, uniqueId) == IF Truthy(req.cfRay) THEN req.cfRay[1] ELSE uniqueId

\* x || null
OrNull(v) == IF Truthy(v) THEN v ELSE Absent

filenameParts(req, uniqueId) ==
  Filter(<< IF isNegative(req) THEN Present("negative") ELSE Absent,
            req.wake_word,
            OrNull(languageAccentOf(req)),
            OrNull(Present(ageOf(req))),
            Present(genderOf(req)),
            Present(identifierOf(req, uniqueId)) >>,
         {Absent, Present("")})

keyOf(req, uniqueId) ==
  LET parts == filenameParts(req, uniqueId)
  IN  Join([k \in 1..Len(parts) |-> parts[k][1]], "-") \o "." \o keyExtension(req)

UploadSuccess(key) ==
  createResponse(ObjectContent(<< <<"message", "success">>, <<"key", key>> >>), 201)

(***************************************************************************)
(* handleUploadAudioFile up to its await: the response it returns, or the  *)
(* put it issues.                                                          *)
(***************************************************************************)
Returns(resp) == [returns |-> TRUE, response |-> resp]

Awaits(call) == [returns |-> FALSE, call |-> call]

PutCall(key, body) == [op |-> "put", key |-> key, body |-> body]

\* the same handler with the age and gender checks ahead of the wake-word ones
handleUploadAudioFile_reordered(req, uniqueId) ==
  IF MethodCheckFails(req) THEN Returns(InvalidMethod(req))
  ELSE IF ContentTypeCheckFails(req) THEN Returns(InvalidContentType(req))
  ELSE IF ContentLengthCheckFails(req) THEN Returns(InvalidContentLength(req))
  ELSE IF AgeCheckFails(req) THEN Returns(InvalidAge(req))
  ELSE IF GenderCheckFails(req) THEN Returns(InvalidGender(req))
  ELSE IF WakeWordMissing(req) THEN Returns(MissingWakeWord(req))
  ELSE IF WakeWordCheckFails(req) THEN Returns(InvalidWakeWord(req))
  ELSE IF LanguageOrAccentGiven(req) /\ TogetherCheckFails(req)
       THEN Returns(NotTogether(req))
  ELSE IF LanguageOrAccentGiven(req) /\ LanguageCheckFails(req)
       THEN Returns(InvalidLanguage(req))
  ELSE IF LanguageOrAccentGiven(req) /\ AccentCheckFails(req)
       THEN Returns(InvalidAccent(req))
  ELSE Awaits(PutCall(keyOf(req, uniqueId), req.body))

handleUploadAudioFile(req, uniqueId) ==
  IF MethodCheckFails(req) THEN Returns(InvalidMethod(req))
  ELSE IF ContentTypeCheckFails(req) THEN Returns(InvalidContentType(req))
  ELSE IF ContentLengthCheckFails(req) THEN Returns(InvalidContentLength(req))
  ELSE IF WakeWordMissing(req) THEN Returns(MissingWakeWord(req))
  ELSE IF WakeWordCheckFails(req) THEN Returns(InvalidWakeWord(req))
  ELSE IF AgeCheckFails(req) THEN Returns(InvalidAge(req))
  ELSE IF GenderCheckFails(req) THEN Returns(InvalidGender(req))
  ELSE IF LanguageOrAccentGiven(req) /\ TogetherCheckFails(req)
       THEN Returns(NotTogether(req))
  ELSE IF LanguageOrAccentGiven(req) /\ LanguageCheckFails(req)
       THEN Returns(InvalidLanguage(req))
  ELSE IF LanguageOrAccentGiven(req) /\ AccentCheckFails(req)
       THEN Returns(InvalidAccent(req))
  ELSE Awaits(PutCall(keyOf(req, uniqueId), req.body))

(***************************************************************************)
(* The bucket: the stored objects in listing order, one per key.  An       *)
(* object is [key, body, size, uploaded, httpMetadata]; httpMetadata is    *)
(* <<>> or <<contentType>>; uploaded is a day of January 2024.             *)
(***************************************************************************)
HasKey(objects, key) == \E k \in 1..Len(objects) : objects[k].key = key

ObjectAt(objects, key) == objects[CHOOSE k \in 1..Len(objects) : objects[k].key = key]

\* WAKEWORD_TRAINING_BUCKET.put(key, body), once it has resolved: the object
\* under the key is replaced, or a new one is added; no httpMetadata is given
BucketPut(objects, key, body) ==
  LET obj == [key |-> key, body |-> body, size |-> Len(body),
              uploaded |-> 2, httpMetadata |-> Absent]
  IN  IF HasKey(objects, key)
      THEN [k \in 1..Len(objects) |-> IF objects[k].key = key THEN obj ELSE objects[k]]
      ELSE Append(objects, obj)

\* WAKEWORD_TRAINING_BUCKET.get(key): the object, or null
BucketGet(objects, key) ==
  IF HasKey(objects, key) THEN Present(ObjectAt(objects, key)) ELSE Absent

RECURSIVE WithPrefix(_, _)
WithPrefix(objects, prefix) ==
  IF Len(objects) = 0 THEN <<>>
  ELSE IF StartsWith(objects[1].key, prefix)
  THEN <<objects[1]>> \o WithPrefix(Tail(objects), prefix)
  ELSE WithPrefix(Tail(objects), prefix)

\* what the backend makes of the limit it is given: its own maximum when the
\* value is not a count it can use
BackendLimit(limit) == IF limit.nan \/ limit.n < 1 THEN 1000 ELSE limit.n

\* the cursor is the backend's own token: here the number of objects of the
\* listing already handed out
CursorOffset(cursor) == IF cursor = Absent THEN Num(0) ELSE ParseInt(cursor[1])

\* WAKEWORD_TRAINING_BUCKET.list({limit, prefix, cursor}), once it has resolved
BucketList(objects, call) ==
  LET matching == WithPrefix(objects, call.prefix)
      from == CursorOffset(call.cursor).n
      upto == Min(Len(matching), from + BackendLimit(call.limit))
      truncated == upto < Len(matching)
  IN  [ objects |-> SubSeq(matching, from + 1, upto),
        truncated |-> truncated,
        cursor |-> IF truncated THEN Present(ToString(upto)) ELSE Absent ]

\* the list calls the backend can answer: a cursor it has handed out
ListAnswerable(objects, call) ==
  LET offset == CursorOffset(call.cursor)
  IN  ~offset.nan /\ offset.n >= 0 /\ offset.n <= Len(WithPrefix(objects, call.prefix))

(***************************************************************************)
(* handleListFiles.                                                        *)
(***************************************************************************)
\* parseInt(searchParams.get("limit") || "1000", 10)
limitOf(req) == ParseInt(IF Truthy(req.limit) THEN req.limit[1] ELSE "1000")

\* searchParams.get("prefix") || ""
prefixOf(req) == IF Truthy(req.prefix) THEN req.prefix[1] ELSE ""

ListCall(req) ==
  [ op |-> "list",
    limit |-> MathMin(limitOf(req), Num(1000)),
    prefix |-> prefixOf(req),
    cursor |-> OrNull(req.cursor) ]

handleListFiles(req) == Awaits(ListCall(req))

Pad2(n) == IF n < 10 THEN "0" \o ToString(n) ELSE ToString(n)

\* Date.prototype.toISOString
toISOString(day) == "2024-01-" \o Pad2(day) \o "T00:00:00.000Z"

\* JSON.stringify of one object summary, at the indentation of the array
SummaryText(obj) ==
  "    {\n"
  \o "      \"key\": " \o Quote(obj.key) \o ",\n"
  \o "      \"size\": " \o ToString(obj.size) \o ",\n"
  \o "      \"uploaded\": " \o Quote(toISOString(obj.uploaded)) \o ",\n"
  \o "      \"httpMetadata\": "
  \o (IF obj.httpMetadata = Absent THEN "{}"
      ELSE "{\n        \"contentType\": " \o Quote(obj.httpMetadata[1]) \o "\n      }")
  \o "\n    }"

RECURSIVE SummariesText(_)
SummariesText(objects) ==
  IF Len(objects) = 1 THEN SummaryText(objects[1]) \o "\n"
  ELSE SummaryText(objects[1]) \o ",\n" \o SummariesText(Tail(objects))

\* JSON.stringify({objects, truncated, cursor, delimitedPrefixes}, null, 2);
\* an undefined cursor is left out, delimitedPrefixes is empty without a delimiter
ListBody(listed) ==
  "{\n"
  \o "  \"objects\": "
  \o (IF Len(listed.objects) = 0 THEN "[]"
      ELSE "[\n" \o SummariesText(listed.objects) \o "  ]")
  \o ",\n"
  \o "  \"truncated\": " \o (IF listed.truncated THEN "true" ELSE "false") \o ",\n"
  \o (IF listed.cursor = Absent THEN ""
      ELSE "  \"cursor\": " \o Quote(listed.cursor[1]) \o ",\n")
  \o "  \"delimitedPrefixes\": []\n"
  \o "}"

ListSuccess(listed) ==
  [ status |-> 200,
    headers |-> [ AccessControlAllowOrigin |-> "*",
                  AccessControlAllowMethods |-> "GET",
                  AccessControlAllowHeaders |-> "Content-Type",
                  ContentType |-> "application/json;charset=UTF-8" ],
    body |-> ListBody(listed) ]

ListError(error) ==
  createResponse(
    ObjectContent(<< <<"message", "Error listing files">>, <<"error", error>> >>), 500)

(***************************************************************************)
(* handleDownloadFile.                                                     *)
(***************************************************************************)
GetCall(key) == [op |-> "get", key |-> key]

MissingKey == createResponse(Message("Missing required parameter: key"), 400)

handleDownloadFile(req) ==
  IF ~Truthy(req.key) THEN Returns(MissingKey) ELSE Awaits(GetCall(req.key[1]))

FileNotFound(key) == createResponse(Message("File not found: " \o key), 404)

DownloadSuccess(key, object) ==
  [ status |-> 200,
    headers |->
      [ AccessControlAllowOrigin |-> "*",
        AccessControlAllowMethods |-> "GET",
        AccessControlAllowHeaders |-> "Content-Type",
        ContentDisposition |-> "attachment; filename=\"" \o key \o "\"",
        ContentLength |-> ToString(object.size) ]
      @@ (IF Truthy(object.httpMetadata)
          THEN [ContentType |-> object.httpMetadata[1]]
          ELSE <<>>),
    body |-> object.body ]

DownloadError(error) ==
  createResponse(
    ObjectContent(<< <<"message", "Error downloading file">>, <<"error", error>> >>), 500)

(***************************************************************************)
(* assistHandler up to the handler's await.                                *)
(***************************************************************************)
\* a preflight answer given only where no route matches
IsPreflight_unrouted(req) ==
  /\ req.method = "OPTIONS"
  /\ req.pathname \notin { WAKE_WORD_TRAINING_UPLOAD, WAKE_WORD_TRAINING_LIST,
                           WAKE_WORD_TRAINING_DOWNLOAD }

IsPreflight(req) == req.method = "OPTIONS"

Preflight == createResponse(StringContent("ok"), 200)

NotFound == createResponse(StringContent("Not Found"), 404)

assistHandler(req, uniqueId) ==
  IF IsPreflight(req) THEN Returns(Preflight)
  ELSE IF req.pathname = WAKE_WORD_TRAINING_UPLOAD THEN handleUploadAudioFile(req, uniqueId)
  ELSE IF req.pathname = WAKE_WORD_TRAINING_LIST THEN handleListFiles(req)
  ELSE IF req.pathname = WAKE_WORD_TRAINING_DOWNLOAD THEN handleDownloadFile(req)
  ELSE Returns(NotFound)

(***************************************************************************)
(* The requests the model sends.                                           *)
(***************************************************************************)
Request(method, pathname) ==
  [ method |-> method, pathname |-> pathname,
    contentType |-> Absent, contentLength |-> Absent, cfRay |-> Absent,
    wake_word |-> Absent, age |-> Absent, gender |-> Absent,
    language |-> Absent, accent |-> Absent,
    limit |-> Absent, prefix |-> Absent, cursor |-> Absent, key |-> Absent,
    body |-> "" ]

ContentTypeHeaders ==
  {Absent, Present("audio/webm;codecs=opus"), Present("audio/wav"), Present("text/plain")}

ContentLengthHeaders ==
  {Absent, Present("abc"), Present("0"), Present("-5"), Present("256000"), Present("256001")}

WakeWords == {Absent, Present("hey_nexus"), Present("texas"), Present("alexa")}

Ages == {Absent, Present("child"), Present("senior"), Present("toString")}

Genders == {Absent, Present("robot")}

Languages == {Absent, Present("en"), Present("fr"), Present("constructor")}

Accents == {Absent, Present("us"), Present("de")}

CfRays == {Absent, Present(""), Present("8c1f2a3b4d5e6f70-SJC")}

\* PUT requests to the upload route: every combination of the values above
PutRequests ==
  [ method : {"PUT"}, pathname : {WAKE_WORD_TRAINING_UPLOAD},
    contentType : ContentTypeHeaders, contentLength : ContentLengthHeaders,
    cfRay : CfRays, wake_word : WakeWords, age : Ages, gender : Genders,
    language : Languages, accent : Accents,
    limit : {Absent}, prefix : {Absent}, cursor : {Absent}, key : {Absent},
    body : {"RIFF"} ]

\* requests to the upload route with another method, valid and invalid ones
NonPutRequests ==
  [ method : {"GET", "POST", "DELETE", "OPTIONS"}, pathname : {WAKE_WORD_TRAINING_UPLOAD},
    contentType : {Present("audio/wav"), Present("text/plain")},
    contentLength : {Absent, Present("-5"), Present("256000")},
    cfRay : {Absent}, wake_word : {Absent, Present("hey_nexus")},
    age : {Absent, Present("senior")}, gender : {Absent, Present("female")},
    language : {Absent, Present("en")}, accent : {Absent, Present("us")},
    limit : {Absent}, prefix : {Absent}, cursor : {Absent}, key : {Absent},
    body : {"RIFF"} ]

UploadRequests == PutRequests \cup NonPutRequests

Limits ==
  { Absent, Present(""), Present("abc"), Present("0"), Present("-3"),
    Present("1"), Present("1000"), Present("5000") }

ListRequests ==
  { [Request(m, WAKE_WORD_TRAINING_LIST)
       EXCEPT !.limit = l, !.prefix = p, !.cursor = c] :
      m \in {"GET", "OPTIONS"}, l \in Limits,
      p \in {Absent, Present("hey_nexus")}, c \in {Absent, Present("1"), Present("zz")} }

PreloadedKey == "hey_nexus-adult-male-7f00aa11bb22cc33-LHR.webm"

DownloadRequests ==
  { [Request(m, WAKE_WORD_TRAINING_DOWNLOAD) EXCEPT !.key = k] :
      m \in {"GET", "OPTIONS"},
      k \in { Absent, Present(""), Present(PreloadedKey), Present("no-such-key.wav"),
              Present("say \"hey\".wav") } }

OtherRequests ==
  { Request(m, p) :
      m \in {"GET", "PUT", "OPTIONS"},
      p \in {"/", "/assist/wake_word/training_data/upload/", "/assist/unknown"} }

Requests == UploadRequests \cup ListRequests \cup DownloadRequests \cup OtherRequests

\* Date.now()
Clock == 1..MaxClock

\* Math.random().toString(36)
RandomTexts == {"0.k3j2h1x9"}

\* the errors a bucket call rejects with, by their message
BackendErrors == {"Network connection lost."}

Invocations == 1..NumInvocations

PreloadedObjects ==
  << [ key |-> PreloadedKey, body |-> "OggS", size |-> 4, uploaded |-> 1,
       httpMetadata |-> Present("audio/webm") ],
     [ key |-> "negative-texas-do_not_wish_to_say-1-abc.wav", body |-> "RIFFWAVE",
       size |-> 8, uploaded |-> 1, httpMetadata |-> Absent ] >>

InitialBuckets == {<<>>, PreloadedObjects}

(***************************************************************************)
(* The invocations.  pc is "idle" before the request arrives, "await"      *)
(* while the bucket call is outstanding, "returned" once assistHandler has *)
(* returned a response and "thrown" once it has thrown.  settled records   *)
(* how the invocation's bucket call ended: "none", "resolved", "rejected". *)
(* putCalls counts the puts an invocation has issued, putLog lists the     *)
(* puts that resolved, in the order in which they did.                     *)
(***************************************************************************)
Init ==
  /\ pc = [i \in Invocations |-> "idle"]
  /\ request = [i \in Invocations |-> Absent]
  /\ response = [i \in Invocations |-> Absent]
  /\ pending = [i \in Invocations |-> Absent]
  /\ settled = [i \in Invocations |-> "none"]
  /\ putCalls = [i \in Invocations |-> 0]
  /\ bucket \in InitialBuckets
  /\ putLog = <<>>

Return(i, resp) ==
  /\ pc' = [pc EXCEPT ![i] = "returned"]
  /\ response' = [response EXCEPT ![i] = Present(resp)]
  /\ pending' = [pending EXCEPT ![i] = Absent]

Settle(i, how) == settled' = [settled EXCEPT ![i] = how]

\* assistHandler is called and runs to its return or to its await
Receive(i, req, timestamp, randomText) ==
  /\ pc[i] = "idle"
  /\ request' = [request EXCEPT ![i] = Present(req)]
  /\ LET r == assistHandler(req, uniqueIdOf(timestamp, randomText))
     IN  IF r.returns
         THEN /\ Return(i, r.response)
              /\ UNCHANGED putCalls
         ELSE /\ pc' = [pc EXCEPT ![i] = "await"]
              /\ pending' = [pending EXCEPT ![i] = Present(r.call)]
              /\ putCalls' = [putCalls EXCEPT ![i] = @ + (IF r.call.op = "put" THEN 1 ELSE 0)]
              /\ UNCHANGED response
  /\ UNCHANGED <<settled, bucket, putLog>>

Awaiting(i, op) == pc[i] = "await" /\ pending[i][1].op = op

\* the put resolves: the object is stored and the handler returns 201
PutResolve(i) ==
  /\ Awaiting(i, "put")
  /\ LET call == pending[i][1]
     IN  /\ bucket' = BucketPut(bucket, call.key, call.body)
         /\ putLog' = Append(putLog, [invocation |-> i, key |-> call.key, body |-> call.body])
         /\ Return(i, UploadSuccess(call.key))
  /\ Settle(i, "resolved")
  /\ UNCHANGED <<request, putCalls>>

\* a put whose rejection is caught and answered, as list and get do
PutReject_caught(i, error) ==
  /\ Awaiting(i, "put")
  /\ Return(i, createResponse(
                 ObjectContent(<< <<"message", "Error uploading file">>,
                                  <<"error", error>> >>), 500))
  /\ Settle(i, "rejected")
  /\ UNCHANGED <<request, putCalls, bucket, putLog>>

\* the put rejects: nothing catches the error, assistHandler throws
PutReject(i, error) ==
  /\ Awaiting(i, "put")
  /\ pc' = [pc EXCEPT ![i] = "thrown"]
  /\ pending' = [pending EXCEPT ![i] = Absent]
  /\ Settle(i, "rejected")
  /\ UNCHANGED <<request, response, putCalls, bucket, putLog>>

ListResolve(i) ==
  /\ Awaiting(i, "list")
  /\ ListAnswerable(bucket, pending[i][1])
  /\ Return(i, ListSuccess(BucketList(bucket, pending[i][1])))
  /\ Settle(i, "resolved")
  /\ UNCHANGED <<request, putCalls, bucket, putLog>>

\* the list rejects: the catch block answers 500
ListReject(i, error) ==
  /\ Awaiting(i, "list")
  /\ Return(i, ListError(error))
  /\ Settle(i, "rejected")
  /\ UNCHANGED <<request, putCalls, bucket, putLog>>

GetResolve(i) ==
  /\ Awaiting(i, "get")
  /\ LET key == pending[i][1].key
         object == BucketGet(bucket, key)
     IN  Return(i, IF object = Absent THEN FileNotFound(key)
                   ELSE DownloadSuccess(key, object[1]))
  /\ Settle(i, "resolved")
  /\ UNCHANGED <<request, putCalls, bucket, putLog>>

\* the get rejects: the catch block answers 500
GetReject(i, error) ==
  /\ Awaiting(i, "get")
  /\ Return(i, DownloadError(error))
  /\ Settle(i, "rejected")
  /\ UNCHANGED <<request, putCalls, bucket, putLog>>

BucketStep(i) ==
  \/ PutResolve(i)
  \/ \E error \in BackendErrors : PutReject(i, error)
  \/ ListResolve(i)
  \/ \E error \in BackendErrors : ListReject(i, error)
  \/ GetResolve(i)
  \/ \E error \in BackendErrors : GetReject(i, error)

\* one invocation, every request
Next ==
  \/ /\ pc[1] = "idle"
     /\ \E req \in Requests, timestamp \in Clock, randomText \in RandomTexts :
          Receive(1, req, timestamp, randomText)
  \/ BucketStep(1)

Spec == Init /\ [][Next]_vars

(***************************************************************************)
(* Concurrent invocations: the runtime starts one per request and their    *)
(* bucket calls settle in any order.  The requests are fewer: one or two   *)
(* for each outcome, and uploads that differ in nothing but the body.      *)
(***************************************************************************)
Upload(wakeWord, cfRay, body) ==
  [ Request("PUT", WAKE_WORD_TRAINING_UPLOAD)
      EXCEPT !.contentType = Present("audio/webm;codecs=opus"),
             !.contentLength = Present("256000"),
             !.wake_word = Present(wakeWord), !.cfRay = cfRay, !.body = body ]

SharedCfRay == "8c1f2a3b4d5e6f70-SJC"

SharedKey == "hey_nexus-do_not_wish_to_say-8c1f2a3b4d5e6f70-SJC.webm"

ConcurrentRequests ==
  { Upload("hey_nexus", Present(SharedCfRay), "RIFF"),
    Upload("hey_nexus", Present(SharedCfRay), "OggS-2"),
    Upload("hey_nexus", Absent, "RIFF"),
    Upload("texas", Present(SharedCfRay), "RIFF"),
    Upload("alexa", Present(SharedCfRay), "RIFF"),
    Request("OPTIONS", WAKE_WORD_TRAINING_UPLOAD),
    Request("GET", WAKE_WORD_TRAINING_LIST),
    Request("GET", WAKE_WORD_TRAINING_DOWNLOAD),
    [Request("GET", WAKE_WORD_TRAINING_DOWNLOAD) EXCEPT !.key = Present(SharedKey)],
    [Request("GET", WAKE_WORD_TRAINING_DOWNLOAD) EXCEPT !.key = Present(PreloadedKey)],
    Request("GET", "/assist/unknown") }

NextConcurrent ==
  \E i \in Invocations :
    \/ /\ pc[i] = "idle"
       /\ \E req \in ConcurrentRequests, timestamp \in Clock, randomText \in RandomTexts :
            Receive(i, req, timestamp, randomText)
    \/ BucketStep(i)

SpecConcurrent == Init /\ [][NextConcurrent]_vars

(***************************************************************************)
(* Properties.                                                             *)
(***************************************************************************)
Req(i) == request[i][1]

Resp(i) == response[i][1]

Received(i) == request[i] # Absent

Responded(i) == response[i] # Absent

\* the invocation runs handleUploadAudioFile
InUpload(i) ==
  /\ Received(i)
  /\ Req(i).pathname = WAKE_WORD_TRAINING_UPLOAD
  /\ Req(i).method # "OPTIONS"

\* check k of the upload handler, in the order of the claim, fails on req
CheckFails(k, req) ==
  CASE k = 1 -> MethodCheckFails(req)
    [] k = 2 -> ContentTypeCheckFails(req)
    [] k = 3 -> ContentLengthCheckFails(req)
    [] k = 4 -> WakeWordMissing(req)
    [] k = 5 -> ~WakeWordMissing(req) /\ WakeWordCheckFails(req)
    [] k = 6 -> AgeCheckFails(req)
    [] k = 7 -> GenderCheckFails(req)
    [] k = 8 -> Truthy(req.language) # Truthy(req.accent)
    [] k = 9 -> Truthy(req.language) /\ LanguageCheckFails(req)
    [] k = 10 -> /\ Truthy(req.language) /\ Truthy(req.accent)
                 /\ ~LanguageCheckFails(req) /\ AccentCheckFails(req)

FailingChecks(req) == {k \in 1..10 : CheckFails(k, req)}

FirstFailing(req) ==
  CHOOSE k \in FailingChecks(req) : \A j \in FailingChecks(req) : k <= j

CheckStatus == <<405, 415, 413, 400, 400, 400, 400, 400, 400, 400>>

CheckMessage ==
  << "Invalid method", "Invalid content-type, received: ",
     "Invalid content-length, received: ", "Invalid parameters: missing wake_word",
     "Invalid wake word, received: ", "Invalid age, received: ",
     "Invalid gender, received: ", "Both language and accent must be provided together",
     "Invalid language, received: ", "Invalid accent for language " >>

CheckResponse(k, req) ==
  CASE k = 1 -> InvalidMethod(req)
    [] k = 2 -> InvalidContentType(req)
    [] k = 3 -> InvalidContentLength(req)
    [] k = 4 -> MissingWakeWord(req)
    [] k = 5 -> InvalidWakeWord(req)
    [] k = 6 -> InvalidAge(req)
    [] k = 7 -> InvalidGender(req)
    [] k = 8 -> NotTogether(req)
    [] k = 9 -> InvalidLanguage(req)
    [] k = 10 -> InvalidAccent(req)

MessageStarts(resp, text) == StartsWith(resp.body, "{\n  \"message\": \"" \o text)

\* C1: a request to the upload handler that fails one or more of the ten
\* checks is answered, without any await, with the status and the message of
\* the earliest failing check in the order method, content-type,
\* content-length, wake_word present, wake_word allowed, age, gender,
\* language/accent together, language known, accent known.
C1_EarliestFailingCheckAnswers ==
  \A i \in Invocations :
    (InUpload(i) /\ FailingChecks(Req(i)) # {}) =>
      LET k == FirstFailing(Req(i))
      IN  /\ pc[i] = "returned"
          /\ Resp(i).status = CheckStatus[k]
          /\ MessageStarts(Resp(i), CheckMessage[k])
          /\ Resp(i) = CheckResponse(k, Req(i))

\* a PUT whose content-length, wake word and gender all fail: 413 is the answer
C1_Witness ==
  \E i \in Invocations :
    /\ InUpload(i)
    /\ {3, 5, 7} \subseteq FailingChecks(Req(i))
    /\ FirstFailing(Req(i)) = 3
    /\ pc[i] = "returned"
    /\ Resp(i).status = 413

ValidationStatuses == {400, 405, 413, 415}

RECURSIVE Replay(_, _)
\* the bucket that the logged puts make of the objects it started with
Replay(objects, log) ==
  IF Len(log) = 0 THEN objects
  ELSE Replay(BucketPut(objects, log[1].key, log[1].body), Tail(log))

\* C2: an upload answered with 400, 405, 413 or 415 (the case of exactly one
\* of language and accent included) has issued no put and has no part in the
\* bucket's contents, which are the initial objects and the resolved puts; a
\* put is issued only for a request that passes every check, and at most
\* once per request.
C2_NoPutBeforeValidation ==
  /\ \E initial \in InitialBuckets : bucket = Replay(initial, putLog)
  /\ \A i \in Invocations :
       /\ putCalls[i] <= 1
       /\ \A n \in 1..Len(putLog) : putLog[n].invocation = i => putCalls[i] = 1
       /\ putCalls[i] = 1 => InUpload(i) /\ FailingChecks(Req(i)) = {}
       /\ (InUpload(i) /\ Truthy(Req(i).language) # Truthy(Req(i).accent)) =>
            /\ putCalls[i] = 0
            /\ pc[i] = "returned"
            /\ Resp(i).status \in ValidationStatuses
            /\ FirstFailing(Req(i)) = 8 =>
                 /\ Resp(i).status = 400
                 /\ MessageStarts(Resp(i),
                                  "Both language and accent must be provided together")
       /\ (InUpload(i) /\ Responded(i) /\ Resp(i).status \in ValidationStatuses) =>
            putCalls[i] = 0

\* only the accent is given: 400, and no put
C2_Witness ==
  \E i \in Invocations :
    /\ InUpload(i)
    /\ ~Truthy(Req(i).language) /\ Truthy(Req(i).accent)
    /\ FirstFailing(Req(i)) = 8
    /\ pc[i] = "returned"
    /\ Resp(i).status = 400
    /\ putCalls[i] = 0

\* C3, as claimed: every request to the upload route with a method other
\* than PUT, OPTIONS included, is answered 405.
C3_Original_NonPutIs405 ==
  \A i \in Invocations :
    ( /\ Received(i)
      /\ Req(i).pathname = WAKE_WORD_TRAINING_UPLOAD
      /\ Req(i).method # "PUT" ) =>
        pc[i] = "returned" /\ Resp(i).status = 405

\* C3, amended: a request to the upload route with a method other than PUT
\* and other than OPTIONS is answered 405, whatever its headers and query
\* parameters; an OPTIONS request is answered 200 by the dispatcher.
C3_NonPutNonOptionsIs405 ==
  \A i \in Invocations :
    (Received(i) /\ Req(i).pathname = WAKE_WORD_TRAINING_UPLOAD) =>
      /\ Req(i).method \notin {"PUT", "OPTIONS"} =>
           pc[i] = "returned" /\ Resp(i).status = 405 /\ putCalls[i] = 0
      /\ Req(i).method = "OPTIONS" =>
           pc[i] = "returned" /\ Resp(i).status = 200

\* a POST that is a valid upload in everything but its method
C3_Witness ==
  \E i \in Invocations :
    /\ InUpload(i)
    /\ Req(i).method = "POST"
    /\ FailingChecks(Req(i)) = {1}
    /\ pc[i] = "returned"
    /\ Resp(i).status = 405

\* the Content-Length header is present and parses as a positive integer
\* of at most 250 * 1024
ContentLengthAcceptable(req) ==
  /\ req.contentLength # Absent
  /\ LET n == ParseInt(req.contentLength[1])
     IN  ~n.nan /\ n.n > 0 /\ n.n <= 250 * 1024

\* C4, as claimed: a PUT upload with an allowed content type passes the
\* content-length check only when the header is present, parses as a
\* positive integer and is at most 256000; any other value is answered 413
\* with no put.
C4_Original_ContentLengthGate ==
  \A i \in Invocations :
    ( /\ InUpload(i)
      /\ Req(i).method = "PUT"
      /\ ~ContentTypeCheckFails(Req(i))
      /\ ~ContentLengthAcceptable(Req(i)) ) =>
        pc[i] = "returned" /\ Resp(i).status = 413 /\ putCalls[i] = 0

\* the puts of invocation i that have resolved
PutsOf(i) == {n \in 1..Len(putLog) : putLog[n].invocation = i}

\* the key of the put that invocation i has issued is on record
KeyKnown(i) == (pc[i] = "await" /\ pending[i][1].op = "put") \/ PutsOf(i) # {}

IssuedKey(i) ==
  IF pc[i] = "await" THEN pending[i][1].key ELSE putLog[CHOOSE n \in PutsOf(i) : TRUE].key

\* the text after the slash of the media type, parameters left out
Subtype(header) ==
  LET mediaType == SplitFirst(header, ";")
  IN  Substring(mediaType, IndexOf(mediaType, "/"), Len(mediaType))

\* the key of the claim: the parts in order, each followed by its hyphen
ClaimedKey(req, identifier) ==
  (IF req.wake_word[1] \in {"hey_lexus", "hey_texas", "texas"} THEN "negative-" ELSE "")
  \o req.wake_word[1] \o "-"
  \o (IF Truthy(req.language) /\ Truthy(req.accent)
      THEN req.language[1] \o "_" \o req.accent[1] \o "-" ELSE "")
  \o (IF Truthy(req.age) THEN req.age[1] \o "-" ELSE "")
  \o (IF Truthy(req.gender) THEN req.gender[1] ELSE "do_not_wish_to_say") \o "-"
  \o identifier
  \o "." \o Subtype(req.contentType[1])

\* the identifiers of the claim: the cf-ray header when present and not
\* empty, a generated timestamp-random id otherwise
ClaimedIdentifiers(req) ==
  IF Truthy(req.cfRay) THEN {req.cfRay[1]}
  ELSE {uniqueIdOf(timestamp, randomText) : timestamp \in Clock, randomText \in RandomTexts}

\* C5: the key given to put is the hyphen-join of the optional "negative"
\* marker, the wake word, "{language}_{accent}" when both are given, the age
\* when not empty, the gender or its default and the identifier, followed by
\* "." and the content subtype; it begins with "negative-" exactly for a
\* negative wake word; the 201 body returns that same key and the bucket
\* holds an object under it.
C5_KeyIsOrderedJoin ==
  \A i \in Invocations :
    /\ (pc[i] = "returned" /\ InUpload(i) /\ Resp(i).status = 201) => KeyKnown(i)
    /\ KeyKnown(i) =>
         LET key == IssuedKey(i)
         IN  /\ \E identifier \in ClaimedIdentifiers(Req(i)) :
                  key = ClaimedKey(Req(i), identifier)
             /\ StartsWith(key, "negative-")
                  <=> Req(i).wake_word[1] \in {"hey_lexus", "hey_texas", "texas"}
             /\ pc[i] = "returned" =>
                  /\ Resp(i).status = 201
                  /\ Resp(i).body
                       = "{\n  \"message\": \"success\",\n  \"key\": \"" \o key \o "\"\n}"
                  /\ HasKey(bucket, key)
                  /\ ObjectAt(bucket, key).body = Req(i).body

\* a negative wake word with language, accent and age, and an empty cf-ray
C5_Witness ==
  \E i \in Invocations :
    /\ pc[i] = "returned" /\ InUpload(i) /\ Resp(i).status = 201
    /\ Req(i).wake_word = Present("texas")
    /\ Req(i).language = Present("en") /\ Req(i).accent = Present("us")
    /\ Req(i).age = Present("child")
    /\ Req(i).cfRay = Present("")
    /\ IssuedKey(i) = "negative-texas-en_us-child-do_not_wish_to_say-2-k3j2h1x9.wav"

Routes ==
  {WAKE_WORD_TRAINING_UPLOAD, WAKE_WORD_TRAINING_LIST, WAKE_WORD_TRAINING_DOWNLOAD}

\* the invocation has made no call on the bucket
NoBucketCall(i) == pc[i] # "await" /\ settled[i] = "none" /\ putCalls[i] = 0

\* C6: an OPTIONS request is answered 200 with the JSON text "ok" on every
\* path, the three routes included, and a request of another method to a
\* path that is none of the three routes is answered 404 with the JSON text
\* "Not Found"; neither calls the bucket, whose contents stay as they were.
C6_PreflightAndNotFound ==
  \A i \in Invocations :
    Received(i) =>
      /\ Req(i).method = "OPTIONS" =>
           /\ pc[i] = "returned"
           /\ Resp(i).status = 200
           /\ Resp(i).body = "\"ok\""
           /\ NoBucketCall(i)
           /\ bucket \in InitialBuckets
      /\ (Req(i).method # "OPTIONS" /\ Req(i).pathname \notin Routes) =>
           /\ pc[i] = "returned"
           /\ Resp(i).status = 404
           /\ Resp(i).body = "\"Not Found\""
           /\ NoBucketCall(i)
           /\ bucket \in InitialBuckets

\* an OPTIONS request to the upload route that carries a valid upload
C6_Witness ==
  \E i \in Invocations :
    /\ Received(i)
    /\ Req(i).method = "OPTIONS"
    /\ Req(i).pathname = WAKE_WORD_TRAINING_UPLOAD
    /\ FailingChecks(Req(i)) = {1}
    /\ Resp(i).status = 200

ErrorBody(message) ==
  {"{\n  \"message\": \"" \o message \o "\",\n  \"error\": \"" \o error \o "\"\n}" :
     error \in BackendErrors}

\* C7: a list call that rejects is answered 500 "Error listing files" and a
\* get call that rejects 500 "Error downloading file", assistHandler
\* returning in both cases; a put that rejects is answered by nothing,
\* assistHandler throws; a 201 is returned only for a put that resolved.
C7_BackendFailures ==
  \A i \in Invocations :
    /\ pc[i] = "thrown" =>
         /\ Req(i).pathname = WAKE_WORD_TRAINING_UPLOAD
         /\ settled[i] = "rejected"
    /\ settled[i] = "rejected" =>
         CASE Req(i).pathname = WAKE_WORD_TRAINING_LIST ->
                /\ pc[i] = "returned"
                /\ Resp(i).status = 500
                /\ Resp(i).body \in ErrorBody("Error listing files")
           [] Req(i).pathname = WAKE_WORD_TRAINING_DOWNLOAD ->
                /\ pc[i] = "returned"
                /\ Resp(i).status = 500
                /\ Resp(i).body \in ErrorBody("Error downloading file")
           [] Req(i).pathname = WAKE_WORD_TRAINING_UPLOAD ->
                /\ pc[i] = "thrown"
                /\ ~Responded(i)
                /\ PutsOf(i) = {}
    /\ (Responded(i) /\ Resp(i).status = 201) =>
         settled[i] = "resolved" /\ PutsOf(i) # {}

\* a list answered 500 beside an upload that threw
C7_Witness ==
  \E i, j \in Invocations :
    /\ pc[i] = "thrown" /\ ~Responded(i) /\ putCalls[i] = 1
    /\ settled[j] = "rejected" /\ Req(j).pathname = WAKE_WORD_TRAINING_LIST
    /\ Resp(j).status = 500

\* C8, as claimed: the limit given to list is an integer of at most 1000,
\* and 1000 when the limit parameter is absent or empty.
C8_Original_LimitIsIntegerAtMost1000 ==
  \A i \in Invocations :
    (pc[i] = "await" /\ pending[i][1].op = "list") =>
      /\ ~pending[i][1].limit.nan
      /\ pending[i][1].limit.n <= 1000
      /\ ~Truthy(Req(i).limit) => pending[i][1].limit.n = 1000

\* C9, as claimed: any two responses carry the same three cross-origin headers.
C9_Original_SameCorsHeaders ==
  \A i, j \in Invocations :
    (Responded(i) /\ Responded(j)) =>
      /\ Resp(i).headers.AccessControlAllowOrigin = Resp(j).headers.AccessControlAllowOrigin
      /\ Resp(i).headers.AccessControlAllowMethods = Resp(j).headers.AccessControlAllowMethods
      /\ Resp(i).headers.AccessControlAllowHeaders = Resp(j).headers.AccessControlAllowHeaders

\* the 200 of the list and download handlers, which build their own headers
OwnHeaders(i) ==
  /\ Req(i).method # "OPTIONS"
  /\ Req(i).pathname \in {WAKE_WORD_TRAINING_LIST, WAKE_WORD_TRAINING_DOWNLOAD}
  /\ Resp(i).status = 200

\* C9, amended: any two responses carry the same Access-Control-Allow-Origin
\* ("*") and the same Access-Control-Allow-Headers ("Content-Type");
\* Access-Control-Allow-Methods is "GET" on the 200 of a list or a download
\* and "PUT" on every other response.
C9_CorsHeaders ==
  \A i, j \in Invocations :
    (Responded(i) /\ Responded(j)) =>
      /\ Resp(i).headers.AccessControlAllowOrigin = Resp(j).headers.AccessControlAllowOrigin
      /\ Resp(i).headers.AccessControlAllowHeaders = Resp(j).headers.AccessControlAllowHeaders
      /\ Resp(i).headers.AccessControlAllowOrigin = "*"
      /\ Resp(i).headers.AccessControlAllowHeaders = "Content-Type"
      /\ Resp(i).headers.AccessControlAllowMethods = IF OwnHeaders(i) THEN "GET" ELSE "PUT"

\* a download answered 200 beside an upload answered 201
C9_Witness ==
  \E i, j \in Invocations :
    /\ Responded(i) /\ Responded(j)
    /\ Req(i).pathname = WAKE_WORD_TRAINING_DOWNLOAD /\ Resp(i).status = 200
    /\ Req(j).pathname = WAKE_WORD_TRAINING_UPLOAD /\ Resp(j).status = 201
    /\ Resp(i).headers.AccessControlAllowMethods = "GET"
    /\ Resp(j).headers.AccessControlAllowMethods = "PUT"

\* two uploads that agree in everything the key is made of, cf-ray included
SameLabels(i, j) ==
  /\ InUpload(i) /\ InUpload(j)
  /\ putCalls[i] = 1 /\ putCalls[j] = 1
  /\ Truthy(Req(i).cfRay)
  /\ \A f \in {"contentType", "wake_word", "age", "gender", "language", "accent", "cfRay"} :
       Req(i)[f] = Req(j)[f]

ObjectsUnder(key) == {k \in 1..Len(bucket) : bucket[k].key = key}

\* the resolved puts under the key, these two uploads' and any other's
PutsUnder(key) == {n \in 1..Len(putLog) : putLog[n].key = key}

\* C10: two valid uploads with the same content type, labels and cf-ray
\* issue their puts under one key; neither waits for the other; when both
\* puts have resolved both are answered 201 with that key and the bucket
\* holds one object under it, with the body of the put under that key that
\* resolved last.
C10_CollidingUploads ==
  \A i, j \in Invocations :
    (i # j /\ SameLabels(i, j)) =>
      /\ (KeyKnown(i) /\ KeyKnown(j)) => IssuedKey(i) = IssuedKey(j)
      /\ pc[i] = "await" => ENABLED PutResolve(i)
      /\ (settled[i] = "resolved" /\ settled[j] = "resolved") =>
           LET key == IssuedKey(i)
               last == CHOOSE n \in PutsUnder(key) : \A m \in PutsUnder(key) : m <= n
           IN  /\ Resp(i).status = 201 /\ Resp(j).status = 201
               /\ Resp(i).body = Resp(j).body
               /\ Resp(i).body
                    = "{\n  \"message\": \"success\",\n  \"key\": \"" \o key \o "\"\n}"
               /\ Cardinality(ObjectsUnder(key)) = 1
               /\ ObjectAt(bucket, key).body = putLog[last].body

\* both uploads answered, the bodies differ, the later put's body is stored
C10_Witness ==
  \E i, j \in Invocations :
    /\ i # j /\ SameLabels(i, j)
    /\ settled[i] = "resolved" /\ settled[j] = "resolved"
    /\ Req(i).body # Req(j).body
    /\ \A n \in PutsOf(i) : \A m \in PutsOf(j) : n < m
    /\ PutsUnder(IssuedKey(j)) = PutsOf(i) \cup PutsOf(j)
    /\ ObjectAt(bucket, IssuedKey(j)).body = Req(j).body
    /\ Resp(i).status = 201 /\ Resp(j).status = 201

====
